---------------------------- MODULE Spec2Model ----------------------------
(***************************************************************************)
(* A model of the todo command line tool: the SQLite store of db.rs (the   *)
(* tables tasks, tags and task_tags), the Task conversions of task.rs, the *)
(* deadline text of deadline.rs and the commands of main.rs.               *)
(*                                                                         *)
(* Text is a sequence of character codes (ASCII), so that SQLite's text    *)
(* comparison, its LIKE operator and chrono's date formatting are computed *)
(* character by character, as the program computes them.  An Option is a   *)
(* sequence of length 0 (None) or 1 (Some).                                *)
(***************************************************************************)
EXTENDS Integers, Sequences, FiniteSets, TLC

VARIABLES tasks, tags, task_tags, clock, today, last

vars == <<tasks, tags, task_tags, clock, today, last.op, last.ok, last>>

-----------------------------------------------------------------------------
(* Bounds of the model.                                                    *)

\* seconds the system clock may advance during a run
MaxClock == 1
\* rows the tasks table may hold before add is no longer tried
MaxTasks == 2
\* the day the run happens, in days since 1970-01-01 (20458 is 2026-01-05)
FirstDay == 20458
\* a relative deadline far enough ahead to leave the four-digit years
FarDays == 3000000

-----------------------------------------------------------------------------
(* Options and text.                                                       *)

None == <<>>
Some(v) == <<v>>
IsSome(o) == Len(o) = 1
IsNone(o) == Len(o) = 0
Unwrap(o) == o[1]

RECURSIVE SeqToSet(_)
SeqToSet(s) == IF s = <<>> THEN {} ELSE {Head(s)} \cup SeqToSet(Tail(s))

\* s without its first n elements
Drop(s, n) == SubSeq(s, n + 1, Len(s))
Take(s, n) == SubSeq(s, 1, n)

\* str::starts_with and str::ends_with
StartsWith(s, p) == Len(p) <= Len(s) /\ Take(s, Len(p)) = p
EndsWith(s, p) == Len(p) <= Len(s) /\ Drop(s, Len(s) - Len(p)) = p

\* byte-wise comparison of two texts (SQLite's BINARY collation: memcmp, then
\* the shorter text first)
RECURSIVE TextLess(_, _)
TextLess(a, b) ==
    IF b = <<>> THEN FALSE
    ELSE IF a = <<>> THEN TRUE
    ELSE IF Head(a) # Head(b) THEN Head(a) < Head(b)
    ELSE TextLess(Tail(a), Tail(b))

\* the character codes (ASCII) of the characters the model writes
Ascii ==
    " " :> 32 @@ "%" :> 37 @@ "+" :> 43 @@ "-" :> 45 @@ "/" :> 47
    @@ "0" :> 48 @@ "1" :> 49 @@ "2" :> 50 @@ "3" :> 51 @@ "4" :> 52
    @@ "5" :> 53 @@ "6" :> 54 @@ "7" :> 55 @@ "8" :> 56 @@ "9" :> 57
    @@ "A" :> 65 @@ "B" :> 66 @@ "C" :> 67 @@ "Z" :> 90 @@ "_" :> 95
    @@ "a" :> 97 @@ "b" :> 98 @@ "c" :> 99 @@ "d" :> 100 @@ "e" :> 101
    @@ "f" :> 102 @@ "g" :> 103 @@ "h" :> 104 @@ "i" :> 105 @@ "j" :> 106
    @@ "k" :> 107 @@ "l" :> 108 @@ "m" :> 109 @@ "n" :> 110 @@ "o" :> 111
    @@ "p" :> 112 @@ "q" :> 113 @@ "r" :> 114 @@ "s" :> 115 @@ "t" :> 116
    @@ "u" :> 117 @@ "v" :> 118 @@ "w" :> 119 @@ "x" :> 120 @@ "y" :> 121
    @@ "z" :> 122

\* a text written as a tuple of one-character strings
Str(chars) == [i \in 1..Len(chars) |-> Ascii[chars[i]]]

ChPlus == Ascii["+"]
ChMinus == Ascii["-"]
ChZero == Ascii["0"]
ChPercent == Ascii["%"]
ChUnderscore == Ascii["_"]
ChSpace == Ascii[" "]
ChUpperA == Ascii["A"]
ChUpperZ == Ascii["Z"]
ChLowerA == Ascii["a"]

IsDigit(c) == c >= ChZero /\ c <= ChZero + 9

\* ASCII upper-case letters folded to lower case (SQLite's LIKE, to_lowercase)
Lower(c) == IF c >= ChUpperA /\ c <= ChUpperZ THEN c + (ChLowerA - ChUpperA) ELSE c
LowerText(s) == [i \in 1..Len(s) |-> Lower(s[i])]

RECURSIVE TrimStart(_)
TrimStart(s) == IF s # <<>> /\ Head(s) = ChSpace THEN TrimStart(Tail(s)) ELSE s
RECURSIVE TrimEnd(_)
TrimEnd(s) ==
    IF s # <<>> /\ s[Len(s)] = ChSpace THEN TrimEnd(Take(s, Len(s) - 1)) ELSE s
Trim(s) == TrimEnd(TrimStart(s))

\* str::replace(from, ""): every occurrence of `from` removed, left to right
RECURSIVE RemoveAll(_, _)
RemoveAll(s, from) ==
    IF s = <<>> THEN <<>>
    ELSE IF StartsWith(s, from) THEN RemoveAll(Drop(s, Len(from)), from)
    ELSE <<Head(s)>> \o RemoveAll(Tail(s), from)

\* the decimal digits of n >= 0, at least `width` of them (zero padded)
RECURSIVE Digits(_, _)
Digits(n, width) ==
    IF n < 10 /\ width <= 1 THEN <<ChZero + n>>
    ELSE Digits(n \div 10, width - 1) \o <<ChZero + (n % 10)>>

\* the value of a text of decimal digits
RECURSIVE DigitsValue(_)
DigitsValue(s) ==
    IF s = <<>> THEN 0 ELSE DigitsValue(Take(s, Len(s) - 1)) * 10 + (s[Len(s)] - ChZero)

AllDigits(s) == s # <<>> /\ \A i \in 1..Len(s) : IsDigit(s[i])

\* str::parse::<i64>: an optional sign and decimal digits
parse_i64(s) ==
    IF s # <<>> /\ Head(s) \in {ChPlus, ChMinus}
    THEN IF AllDigits(Tail(s))
         THEN Some(IF Head(s) = ChMinus THEN 0 - DigitsValue(Tail(s))
                   ELSE DigitsValue(Tail(s)))
         ELSE None
    ELSE IF AllDigits(s) THEN Some(DigitsValue(s)) ELSE None

-----------------------------------------------------------------------------
(* Calendar dates (chrono::NaiveDate).  A date is its number of days since *)
(* 1970-01-01 in the proleptic Gregorian calendar.                          *)

IsLeap(y) == (y % 4 = 0 /\ y % 100 # 0) \/ y % 400 = 0

MonthLength(y, m) ==
    IF m = 2 THEN (IF IsLeap(y) THEN 29 ELSE 28)
    ELSE IF m \in {4, 6, 9, 11} THEN 30 ELSE 31

\* the year, month and day of a date
CivilFromDays(days) ==
    LET z == days + 719468
        era == z \div 146097
        doe == z - era * 146097
        yoe == (doe - doe \div 1460 + doe \div 36524 - doe \div 146096) \div 365
        doy == doe - (365 * yoe + yoe \div 4 - yoe \div 100)
        mp == (5 * doy + 2) \div 153
        d == doy - (153 * mp + 2) \div 5 + 1
        m == IF mp < 10 THEN mp + 3 ELSE mp - 9
    IN  [y |-> yoe + era * 400 + (IF m <= 2 THEN 1 ELSE 0), m |-> m, d |-> d]

\* the date of a year, month and day
DaysFromCivil(y, m, d) ==
    LET yy == IF m <= 2 THEN y - 1 ELSE y
        era == yy \div 400
        yoe == yy - era * 400
        doy == (153 * (IF m > 2 THEN m - 3 ELSE m + 9) + 2) \div 5 + d - 1
        doe == yoe * 365 + yoe \div 4 - yoe \div 100 + doy
    IN  era * 146097 + doe - 719468

\* NaiveDate::from_ymd_opt
from_ymd_opt(y, m, d) ==
    IF y >= -262143 /\ y <= 262142 /\ m >= 1 /\ m <= 12 /\ d >= 1 /\ d <= MonthLength(y, m)
    THEN Some(DaysFromCivil(y, m, d)) ELSE None

\* chrono's %Y: four digits, zero padded; a year outside 0..9999 is written
\* with its sign
FormatYear(y) ==
    IF y >= 0 /\ y <= 9999 THEN Digits(y, 4)
    ELSE IF y < 0 THEN <<ChMinus>> \o Digits(0 - y, 4)
    ELSE <<ChPlus>> \o Digits(y, 4)

\* a Display that writes the day first: %d-%m-%Y
DeadlineDayFirst(date) ==
    LET c == CivilFromDays(date)
    IN  Digits(c.d, 2) \o <<ChMinus>> \o Digits(c.m, 2) \o <<ChMinus>> \o FormatYear(c.y)

\* impl Display for Deadline: the date as %Y-%m-%d
Deadline_to_string(date) ==
    LET c == CivilFromDays(date)
    IN  FormatYear(c.y) \o <<ChMinus>> \o Digits(c.m, 2) \o <<ChMinus>> \o Digits(c.d, 2)

\* how many of the first `max` characters of s are digits in a row
RECURSIVE LeadDigits(_, _)
LeadDigits(s, max) ==
    IF s = <<>> \/ max = 0 \/ ~IsDigit(Head(s)) THEN 0
    ELSE 1 + LeadDigits(Tail(s), max - 1)

\* NaiveDate::parse_from_str: the items of fmt ("Y", "m", "d" or a literal
\* character) read from s in turn; all of s must be used.  A year with a sign
\* takes every digit that follows, a year without one at most four.
RECURSIVE ParseItems(_, _, _)
ParseItems(s, fmt, acc) ==
    IF fmt = <<>> THEN (IF s = <<>> THEN from_ymd_opt(acc.y, acc.m, acc.d) ELSE None)
    ELSE LET item == Head(fmt) IN
         IF item = "Y"
         THEN LET signed == s # <<>> /\ Head(s) \in {ChPlus, ChMinus}
                  body == IF signed THEN Tail(s) ELSE s
                  n == LeadDigits(body, IF signed THEN Len(body) ELSE 4)
                  v == DigitsValue(Take(body, n))
              IN  IF n = 0 THEN None
                  ELSE ParseItems(Drop(body, n), Tail(fmt),
                         [acc EXCEPT !.y = IF signed /\ Head(s) = ChMinus THEN 0 - v ELSE v])
         ELSE IF item \in {"m", "d"}
         THEN LET n == LeadDigits(s, 2)
                  v == DigitsValue(Take(s, n))
              IN  IF n = 0 THEN None
                  ELSE ParseItems(Drop(s, n), Tail(fmt),
                         IF item = "m" THEN [acc EXCEPT !.m = v] ELSE [acc EXCEPT !.d = v])
         ELSE IF s # <<>> /\ Head(s) = Ascii[item]
              THEN ParseItems(Tail(s), Tail(fmt), acc)
              ELSE None

parse_from_str(s, fmt) == ParseItems(s, fmt, [y |-> 0, m |-> 0, d |-> 0])

\* the first of two Options that is Some (Result::or_else)
OrElse(a, b) == IF IsSome(a) THEN a ELSE b

\* strip_suffix(a).or_else(|| strip_suffix(b))
StripSuffix2(s, a, b) ==
    IF EndsWith(s, a) THEN Some(Take(s, Len(s) - Len(a)))
    ELSE IF EndsWith(s, b) THEN Some(Take(s, Len(s) - Len(b)))
    ELSE None

\* parse_relative_duration: "in " and "+" removed, then a number and a unit
parse_relative_duration(input) ==
    LET cleaned == Trim(RemoveAll(RemoveAll(input, Str(<<"i", "n", " ">>)), <<ChPlus>>))
        days == StripSuffix2(cleaned, Str(<<"d">>), Str(<<"d", "a", "y", "s">>))
        weeks == StripSuffix2(cleaned, Str(<<"w">>), Str(<<"w", "e", "e", "k", "s">>))
        months == StripSuffix2(cleaned, Str(<<"m">>), Str(<<"m", "o", "n", "t", "h", "s">>))
        Times(o, k) == IF IsSome(o) THEN Some(Unwrap(o) * k) ELSE None
    IN  IF IsSome(days) THEN parse_i64(Trim(Unwrap(days)))
        ELSE IF IsSome(weeks) THEN Times(parse_i64(Trim(Unwrap(weeks))), 7)
        ELSE IF IsSome(months) THEN Times(parse_i64(Trim(Unwrap(months))), 30)
        ELSE None

\* Weekday::num_days_from_monday of a date (1970-01-01 was a Thursday)
Weekday(date) == (date + 3) % 7

\* a next_weekday that answers the day itself when it is the weekday asked for
NextWeekdayOrToday(from, target) == from + ((target - Weekday(from) + 7) % 7)

\* next_weekday: the next day after `from` that is the weekday `target`
next_weekday(from, target) ==
    LET days_ahead == (target - Weekday(from) + 7) % 7
    IN  IF days_ahead = 0 THEN from + 7 ELSE from + days_ahead

\* an end_of_week that counts the days of the week from Sunday
EndOfWeekFromSunday(date) == date + (6 - ((Weekday(date) + 1) % 7))

\* end_of_week: the Sunday of the week of the date
end_of_week(date) == date + (6 - Weekday(date))

\* days_in_month: the day before the first of the next month
days_in_month(year, month) ==
    CivilFromDays(Unwrap(OrElse(from_ymd_opt(year, month + 1, 1),
                                from_ymd_opt(year + 1, 1, 1))) - 1).d

\* end_of_month and end_of_year of the date
end_of_month(date) ==
    Unwrap(from_ymd_opt(CivilFromDays(date).y, CivilFromDays(date).m,
                        days_in_month(CivilFromDays(date).y, CivilFromDays(date).m)))
end_of_year(date) == Unwrap(from_ymd_opt(CivilFromDays(date).y, 12, 31))

\* the keywords of Deadline::parse and the date of each on the day `now`
\* (None when the input is no keyword)
KeywordDate(input, now) ==
    IF input = Str(<<"t", "o", "d", "a", "y">>) THEN Some(now)
    ELSE IF input \in {Str(<<"t", "o", "m", "o", "r", "r", "o", "w">>), Str(<<"t", "m", "r">>)} THEN Some(now + 1)
    ELSE IF input \in {Str(<<"m", "o", "n", "d", "a", "y">>), Str(<<"m", "o", "n">>)}
         THEN Some(next_weekday(now, 0))
    ELSE IF input \in {Str(<<"t", "u", "e", "s", "d", "a", "y">>), Str(<<"t", "u", "e">>)}
         THEN Some(next_weekday(now, 1))
    ELSE IF input \in {Str(<<"w", "e", "d", "n", "e", "s", "d", "a", "y">>), Str(<<"w", "e", "d">>)}
         THEN Some(next_weekday(now, 2))
    ELSE IF input \in {Str(<<"t", "h", "u", "r", "s", "d", "a", "y">>), Str(<<"t", "h", "u">>)}
         THEN Some(next_weekday(now, 3))
    ELSE IF input \in {Str(<<"f", "r", "i", "d", "a", "y">>), Str(<<"f", "r", "i">>)}
         THEN Some(next_weekday(now, 4))
    ELSE IF input \in {Str(<<"s", "a", "t", "u", "r", "d", "a", "y">>), Str(<<"s", "a", "t">>)}
         THEN Some(next_weekday(now, 5))
    ELSE IF input \in {Str(<<"s", "u", "n", "d", "a", "y">>), Str(<<"s", "u", "n">>)}
         THEN Some(next_weekday(now, 6))
    ELSE IF input \in {Str(<<"w", "e", "e", "k">>), Str(<<"1", "w", "e", "e", "k">>), Str(<<"1", "w">>)}
         THEN Some(now + 7)
    ELSE IF input \in {Str(<<"2", "w", "e", "e", "k", "s">>), Str(<<"2", "w">>)}
         THEN Some(now + 14)
    ELSE IF input \in {Str(<<"m", "o", "n", "t", "h">>), Str(<<"1", "m", "o", "n", "t", "h">>), Str(<<"1", "m">>)}
         THEN Some(now + 30)
    ELSE IF input \in {Str(<<"3", "m", "o", "n", "t", "h", "s">>), Str(<<"3", "m">>)}
         THEN Some(now + 90)
    ELSE IF input \in {Str(<<"e", "o", "w">>), Str(<<"e", "n", "d", "o", "f", "w", "e", "e", "k">>)}
         THEN Some(end_of_week(now))
    ELSE IF input \in {Str(<<"e", "o", "m">>), Str(<<"e", "n", "d", "o", "f", "m", "o", "n", "t", "h">>)}
         THEN Some(end_of_month(now))
    ELSE IF input \in {Str(<<"e", "o", "y">>), Str(<<"e", "n", "d", "o", "f", "y", "e", "a", "r">>)}
         THEN Some(end_of_year(now))
    ELSE None

\* the first and the last date a NaiveDate can hold
NaiveDate_MIN == DaysFromCivil(-262143, 1, 1)
NaiveDate_MAX == DaysFromCivil(262142, 12, 31)

\* today + Duration::days(days): the addition panics when the date leaves
\* the range of NaiveDate, which ends the command as an error does (None)
AddDays(now, days) ==
    IF now + days >= NaiveDate_MIN /\ now + days <= NaiveDate_MAX
    THEN Some(now + days) ELSE None

\* the dates that are no keyword: a relative duration, or else a date in one
\* of the three formats (None is Err)
OtherDate(input, rel_duration, now) ==
    IF IsSome(rel_duration) THEN AddDays(now, Unwrap(rel_duration))
    ELSE OrElse(parse_from_str(input, <<"Y", "-", "m", "-", "d">>),
         OrElse(parse_from_str(input, <<"d", "/", "m", "/", "Y">>),
                parse_from_str(input, <<"m", "-", "d", "-", "Y">>)))

\* Deadline::parse of the trimmed text in lower case
ParseInput(input, now) ==
    OrElse(KeywordDate(input, now), OtherDate(input, parse_relative_duration(input), now))

\* Deadline::parse with the current date `now` (None is Err)
Deadline_parse(text, now) == ParseInput(LowerText(Trim(text)), now)

\* the error that Deadline::parse builds with anyhow! when no format
\* matches: a fixed message, into which no value is written
InvalidDeadline == [message |-> "Invalid deadline format. Use: today, tomorrow, monday, +5d, 2026-02-10, etc.",
                    carries |-> None]

\* the panic of today + Duration::days(days) on a date out of range
DateOverflowed == [message |-> "NaiveDate + TimeDelta overflowed", carries |-> None]

\* what a failed Deadline::parse of the text leaves: the panic when the text
\* is a relative duration, the error otherwise
ParseFailure(input) ==
    IF IsNone(KeywordDate(input, 0)) /\ IsSome(parse_relative_duration(input))
    THEN DateOverflowed ELSE InvalidDeadline

-----------------------------------------------------------------------------
(* Tasks (task.rs).                                                        *)

\* the length of an identifier: the hexadecimal SHA-1 digest of the program
\* is modelled by IdLen letters of {a, b}
IdLen == MaxClock + 2
\* the length of the short form of an identifier that add reports
ShortLen == IdLen - 1

\* the titles the hash below tells apart: the empty title and the single
\* letters "A", "B" and "C"
TitleNum(title) == IF title = <<>> THEN 0 ELSE title[1] - ChUpperA + 1

RECURSIVE Pow2(_)
Pow2(n) == IF n = 0 THEN 1 ELSE 2 * Pow2(n - 1)

\* generate_content_hash: the digest of the title and the timestamp in seconds.
\* SHA-1 is modelled as a function that is injective on the titles and
\* timestamps of the model: equal title and second give equal identifiers.
generate_content_hash(title, timestamp) ==
    LET h == TitleNum(title) + 4 * timestamp
    IN  [i \in 1..IdLen |-> ChLowerA + ((h \div Pow2(IdLen - i)) % 2)]

\* a Difficulty::new that brings a value out of range to the nearest bound
DifficultyClamped(value) ==
    Some(IF value > 10 THEN 10 ELSE IF value < 0 THEN 0 ELSE value)

\* Difficulty::new
Difficulty_new(value) == IF value >= 0 /\ value <= 10 THEN Some(value) ELSE None

\* the task that Task::new builds once the deadline and the difficulty given
\* are parsed to date and diff; it fails when one was given and its parsing
\* failed (None is Err)
NewTask(title, desc, difficulty, diff, deadline, date, tag_list, pid, clk) ==
    IF (IsSome(deadline) /\ IsNone(date)) \/ (IsSome(difficulty) /\ IsNone(diff))
    THEN None
    ELSE Some([id |-> generate_content_hash(title, clk),
               title |-> title,
               desc |-> desc,
               difficulty |-> diff,
               deadline |-> date,
               tags |-> tag_list,
               pid |-> pid,
               created |-> clk,
               completed |-> FALSE])

\* Task::new at second `clk` of day `now` (None is Err)
Task_new(title, desc, difficulty, deadline, tag_list, pid, now, clk) ==
    NewTask(title, desc,
            difficulty,
            IF IsSome(difficulty) THEN Difficulty_new(Unwrap(difficulty)) ELSE None,
            deadline,
            IF IsSome(deadline) THEN Deadline_parse(Unwrap(deadline), now) ELSE None,
            tag_list, pid, clk)

\* Task::translate_to_db: the column values of a task
translate_to_db(task) ==
    [id |-> task.id,
     title |-> task.title,
     description |-> task.desc,
     difficulty |-> task.difficulty,
     deadline |-> IF IsSome(task.deadline)
                  THEN Some(Deadline_to_string(Unwrap(task.deadline))) ELSE None,
     tags |-> task.tags,
     parent_id |-> task.pid,
     created_at |-> task.created,
     completed |-> task.completed]

\* the task that translate_from_db builds once the deadline and the
\* difficulty of the row are parsed (None is Err)
RowTask(row, row_tags, diff, deadline) ==
    IF (IsSome(row.difficulty) /\ IsNone(diff)) \/ (IsSome(row.deadline) /\ IsNone(deadline))
    THEN None
    ELSE Some([id |-> row.id,
               title |-> row.title,
               desc |-> row.description,
               difficulty |-> diff,
               deadline |-> deadline,
               tags |-> row_tags,
               pid |-> row.parent_id,
               created |-> row.created_at,
               completed |-> row.completed])

\* Task::translate_from_db: the task of a row and its tag names (None is Err)
translate_from_db(row, row_tags, now) ==
    RowTask(row, row_tags,
            IF IsSome(row.difficulty) THEN Difficulty_new(Unwrap(row.difficulty)) ELSE None,
            IF IsSome(row.deadline) THEN Deadline_parse(Unwrap(row.deadline), now) ELSE None)

-----------------------------------------------------------------------------
(* The store (db.rs).  tasks is the table in rowid order, which is the     *)
(* order of a table scan; tags is the table of tag names, a tag's id being *)
(* its position; task_tags is the table of <<task id, tag id>> rows in     *)
(* rowid order.                                                            *)

Store == [tasks |-> tasks, tags |-> tags, task_tags |-> task_tags]

Ok(db, ret) == [db |-> db, ok |-> TRUE, ret |-> ret]
Err(db) == [db |-> db, ok |-> FALSE, ret |-> None]

\* the `?` operator on an Option (None is Err): the error, or Ok of the value
Question(db, value) == IF IsNone(value) THEN Err(db) ELSE Ok(db, Unwrap(value))

\* the `?` operator on the result r of a step, then Ok(ret)
ThenOk(r, ret) == IF r.ok THEN Ok(r.db, ret) ELSE Err(r.db)

Ids(rows) == {rows[i].id : i \in 1..Len(rows)}
RowOf(rows, id) == rows[CHOOSE i \in 1..Len(rows) : rows[i].id = id]

\* SQLite's LIKE: % matches any run of characters, _ any one character, and
\* any other character matches itself without regard to ASCII case
RECURSIVE Like(_, _)
Like(text, pattern) ==
    IF pattern = <<>> THEN text = <<>>
    ELSE IF Head(pattern) = ChPercent
         THEN \E k \in 0..Len(text) : Like(Drop(text, k), Tail(pattern))
    ELSE IF text = <<>> THEN FALSE
    ELSE IF Head(pattern) = ChUnderscore THEN Like(Tail(text), Tail(pattern))
    ELSE Lower(Head(pattern)) = Lower(Head(text)) /\ Like(Tail(text), Tail(pattern))

\* WHERE id LIKE ?1 with the pattern format!("{id}%")
IdLike(row_id, id) == Like(row_id, id \o <<ChPercent>>)

\* the rows of a scan of tasks WHERE id LIKE 'id%', in rowid order
Matching(rows, id) == SelectSeq(rows, LAMBDA r : IdLike(r.id, id))

\* a set of texts as the sequence in ascending order (ORDER BY on a text column)
RECURSIVE SortTexts(_)
SortTexts(S) ==
    IF S = {} THEN <<>>
    ELSE LET least == CHOOSE x \in S : \A y \in S \ {x} : TextLess(x, y)
         IN  <<least>> \o SortTexts(S \ {least})

\* the id of a tag name: its position in the tags table
RECURSIVE TagId(_, _)
TagId(names, name) ==
    IF names[Len(names)] = name THEN Len(names) ELSE TagId(Take(names, Len(names) - 1), name)

\* Database::get_tags: the tag names of a task, ORDER BY tags.name
get_tags(db, id) ==
    SortTexts({db.tags[db.task_tags[i][2]] :
                 i \in {j \in 1..Len(db.task_tags) : db.task_tags[j][1] = id}})

\* the tags of a row as get_task, next and get_tasks attach them: None when
\* the task has no tag
RowTags(db, id) == IF get_tags(db, id) = <<>> THEN None ELSE Some(get_tags(db, id))

\* Database::get_task: the first row of the scan WHERE id LIKE 'id%'
get_task(db, id, now) ==
    LET found == Matching(db.tasks, id)
    IN  IF found = <<>> THEN Err(db)
        ELSE Question(db, translate_from_db(Head(found), RowTags(db, Head(found).id), now))

\* the ORDER BY of next and get_tasks:
\*   CASE WHEN deadline IS NULL THEN 1 ELSE 0 END, deadline ASC, difficulty DESC
\* The deadline column holds the text of the date and is compared as text; a
\* NULL difficulty is below every number.  TRUE when row a sorts strictly
\* before row b.
OrderBefore(a, b) ==
    LET null_a == IF IsNone(a.deadline) THEN 1 ELSE 0
        null_b == IF IsNone(b.deadline) THEN 1 ELSE 0
        diff_a == IF IsNone(a.difficulty) THEN -1 ELSE Unwrap(a.difficulty)
        diff_b == IF IsNone(b.difficulty) THEN -1 ELSE Unwrap(b.difficulty)
    IN  IF null_a # null_b THEN null_a < null_b
        ELSE IF a.deadline # b.deadline
             THEN TextLess(Unwrap(a.deadline), Unwrap(b.deadline))
        ELSE diff_a > diff_b

\* the sorter of a query without LIMIT: each row of the scan is put behind
\* the rows that do not sort after it, so equal rows stay in scan order
RECURSIVE SorterInsert(_, _)
SorterInsert(sorted, row) ==
    IF sorted = <<>> THEN <<row>>
    ELSE IF OrderBefore(row, Head(sorted)) THEN <<row>> \o sorted
    ELSE <<Head(sorted)>> \o SorterInsert(Tail(sorted), row)

RECURSIVE SortRows(_, _)
SortRows(sorted, scan) ==
    IF scan = <<>> THEN sorted
    ELSE SortRows(SorterInsert(sorted, Head(scan)), Tail(scan))

\* a scan handed on with its repeated rows
Repeated(seen, scan) == scan

\* SELECT DISTINCT: a row that the scan yields again is dropped
RECURSIVE Distinct(_, _)
Distinct(seen, scan) ==
    IF scan = <<>> THEN <<>>
    ELSE IF Head(scan).id \in seen THEN Distinct(seen, Tail(scan))
    ELSE <<Head(scan)>> \o Distinct(seen \cup {Head(scan).id}, Tail(scan))

\* the scan of tasks JOIN task_tags JOIN tags WHERE tg.name IN (names): SQLite
\* looks the names up in ascending order, and for each walks the rows of
\* task_tags with that tag in rowid order
RECURSIVE TagScan(_, _)
TagScan(db, names) ==
    IF names = <<>> THEN <<>>
    ELSE LET name == Head(names)
             hits == IF name \in SeqToSet(db.tags)
                     THEN SelectSeq(db.task_tags,
                                    LAMBDA tt : tt[2] = TagId(db.tags, name))
                     ELSE <<>>
         IN  [i \in 1..Len(hits) |-> RowOf(db.tasks, hits[i][1])]
             \o TagScan(db, Tail(names))

\* every element of a sequence of Options unwrapped, None if one is None
RECURSIVE Collect(_)
Collect(results) ==
    IF results = <<>> THEN Some(<<>>)
    ELSE IF IsNone(Head(results)) \/ IsNone(Collect(Tail(results))) THEN None
    ELSE Some(<<Unwrap(Head(results))>> \o Unwrap(Collect(Tail(results))))

\* a completion filter that keeps every row
ScopeIgnored(r, all, only_completed) == TRUE

\* the completion filter of get_tasks: completed = 1 with only_completed,
\* completed = 0 by default, no condition with all
ScopeKeeps(r, all, only_completed) ==
    /\ only_completed => r.completed
    /\ (~only_completed /\ ~all) => ~r.completed

\* Database::get_tasks: the listing for a tag filter, a parent filter and the
\* completion scope
get_tasks(db, tag_list, pid, all, only_completed, now) ==
    LET scan == IF IsSome(tag_list)
                THEN TagScan(db, SortTexts(SeqToSet(Unwrap(tag_list))))
                ELSE db.tasks
        Keep(r) ==
            /\ IsSome(pid) =>
                 IsSome(r.parent_id) /\ IdLike(Unwrap(r.parent_id), Unwrap(pid))
            /\ ScopeKeeps(r, all, only_completed)
        rows == SortRows(<<>>, Distinct({}, SelectSeq(scan, Keep)))
    IN  Question(db, Collect([i \in 1..Len(rows) |->
                            translate_from_db(rows[i], RowTags(db, rows[i].id), now)]))

\* LimitOne with the comparison turned round: a later row replaces the kept row
\* unless the kept row sorts strictly before it
RECURSIVE LimitOneLater(_, _)
LimitOneLater(best, scan) ==
    IF scan = <<>> THEN best
    ELSE LimitOneLater(IF OrderBefore(best, Head(scan)) THEN best ELSE Head(scan),
                       Tail(scan))

\* the row that ORDER BY ... LIMIT 1 keeps: a later row of the scan replaces
\* the kept row only if it sorts strictly before it
RECURSIVE LimitOne(_, _)
LimitOne(best, scan) ==
    IF scan = <<>> THEN best
    ELSE LimitOne(IF OrderBefore(Head(scan), best) THEN Head(scan) ELSE best, Tail(scan))

\* Database::next: the first incomplete task in the ORDER BY above
next(db, now) ==
    LET scan == SelectSeq(db.tasks, LAMBDA r : ~r.completed)
    IN  IF scan = <<>> THEN Err(db)
        ELSE LET row == LimitOne(Head(scan), Tail(scan))
             IN  Question(db, translate_from_db(row, RowTags(db, row.id), now))

\* the statements that add and update_task_tags run for each tag in turn:
\* INSERT OR IGNORE INTO tags, SELECT id FROM tags, INSERT INTO task_tags.
\* The last one fails when the task already has the tag (the primary key of
\* task_tags), and the `?` returns at once: what was written stays written.
RECURSIVE insert_tags(_, _, _)
insert_tags(db, task_id, tag_list) ==
    IF tag_list = <<>> THEN Ok(db, None)
    ELSE LET name == Head(tag_list)
             names == IF name \in SeqToSet(db.tags) THEN db.tags
                      ELSE Append(db.tags, name)
             row == <<task_id, TagId(names, name)>>
         IN  IF row \in SeqToSet(db.task_tags)
             THEN Err([db EXCEPT !.tags = names])
             ELSE insert_tags([db EXCEPT !.tags = names,
                                         !.task_tags = Append(db.task_tags, row)],
                              task_id, Tail(tag_list))

\* SELECT id FROM tasks WHERE id LIKE 'pid%' of add: SQLite answers it from the
\* index of the primary key, so the first row is the least matching id
ParentLookup(db, pid) ==
    LET found == {id \in Ids(db.tasks) : IdLike(id, pid)}
    IN  IF found = {} THEN None ELSE Some(Head(SortTexts(found)))

\* Database::add
add(db, task) ==
    LET row == translate_to_db(task)
        parent == IF IsSome(row.parent_id)
                  THEN ParentLookup(db, Unwrap(row.parent_id)) ELSE None
        inserted ==
            [db EXCEPT !.tasks = Append(db.tasks,
                [id |-> row.id,
                 title |-> row.title,
                 description |-> row.description,
                 difficulty |-> row.difficulty,
                 deadline |-> row.deadline,
                 parent_id |-> parent,
                 created_at |-> row.created_at,
                 completed |-> row.completed])]
        tagged == insert_tags(inserted, row.id,
                              IF IsSome(row.tags) THEN Unwrap(row.tags) ELSE <<>>)
    IN  IF IsSome(row.parent_id) /\ IsNone(parent) THEN Err(db)
        ELSE IF row.id \in Ids(db.tasks) THEN Err(db)
        ELSE ThenOk(tagged, Take(row.id, ShortLen))

\* UPDATE tasks SET completed = 1 WHERE id LIKE 'id%': every row the pattern
\* matches is written
SetCompleted(rows, id) ==
    [i \in 1..Len(rows) |->
        IF IdLike(rows[i].id, id) THEN [rows[i] EXCEPT !.completed = TRUE] ELSE rows[i]]

\* Database::completed
completed(db, id) ==
    IF Matching(db.tasks, id) = <<>> THEN Err(db)
    ELSE Ok([db EXCEPT !.tasks = SetCompleted(db.tasks, id)], id)

\* Database::update_task_tags
update_task_tags(db, task_id, tag_list) ==
    insert_tags([db EXCEPT !.task_tags = SelectSeq(db.task_tags,
                                                  LAMBDA tt : tt[1] # task_id)],
                task_id, tag_list)

\* UpdateRow with the creation time written too, as the time of the update
UpdateRowStamped(old, row) ==
    [old EXCEPT !.title = row.title,
                !.description = row.description,
                !.difficulty = row.difficulty,
                !.deadline = row.deadline,
                !.parent_id = row.parent_id,
                !.completed = row.completed,
                !.created_at = clock]

\* UPDATE tasks SET title, description, difficulty, deadline, parent_id,
\* completed WHERE id = ?1
UpdateRow(old, row) ==
    [old EXCEPT !.title = row.title,
                !.description = row.description,
                !.difficulty = row.difficulty,
                !.deadline = row.deadline,
                !.parent_id = row.parent_id,
                !.completed = row.completed]

\* the merge of Database::update: a field that the updates leave out is the
\* field of the existing task; id and created are the existing task's
MergeUpdates(updates, existing) ==
    [updates EXCEPT
        !.title = IF updates.title = <<>> THEN existing.title ELSE @,
        !.desc = IF IsNone(updates.desc) THEN existing.desc ELSE @,
        !.difficulty = IF IsNone(updates.difficulty) THEN existing.difficulty ELSE @,
        !.deadline = IF IsNone(updates.deadline) THEN existing.deadline ELSE @,
        !.pid = IF IsNone(updates.pid) THEN existing.pid ELSE @,
        !.id = existing.id,
        !.created = existing.created]

\* the UPDATE of Database::update on every row with the id of db_task
UpdateRows(rows, db_task) ==
    [i \in 1..Len(rows) |->
        IF rows[i].id = db_task.id THEN UpdateRow(rows[i], db_task) ELSE rows[i]]

\* the statements of Database::update without the foreign key on parent_id
WriteUnchecked(db, id, db_task) ==
    IF IsNone(db_task.tags)
    THEN Ok([db EXCEPT !.tasks = UpdateRows(db.tasks, db_task)], id)
    ELSE ThenOk(update_task_tags([db EXCEPT !.tasks = UpdateRows(db.tasks, db_task)],
                                 db_task.id, Unwrap(db_task.tags)),
                id)

\* the statements of Database::update for the merged task.  The UPDATE fails,
\* and nothing is written, when the new parent_id is not the id of a row
\* (FOREIGN KEY (parent_id) REFERENCES tasks(id)); update_task_tags runs when
\* the merged task has tags, and its error leaves what was written.
WriteUpdate(db, id, db_task) ==
    IF IsSome(db_task.parent_id) /\ Unwrap(db_task.parent_id) \notin Ids(db.tasks)
    THEN Err(db)
    ELSE IF IsNone(db_task.tags)
    THEN Ok([db EXCEPT !.tasks = UpdateRows(db.tasks, db_task)], id)
    ELSE ThenOk(update_task_tags([db EXCEPT !.tasks = UpdateRows(db.tasks, db_task)],
                                 db_task.id, Unwrap(db_task.tags)),
                id)

\* Database::update for the task that get_task found
UpdateFound(db, id, updates, got) ==
    IF ~got.ok THEN Err(db)
    ELSE WriteUpdate(db, id, translate_to_db(MergeUpdates(updates, got.ret)))

\* Database::update with the task that main builds from the options given
update(db, id, updates, now) == UpdateFound(db, id, updates, get_task(db, id, now))

\* Cascade without the children of the children
CascadeOnce(rows, gone) ==
    gone \cup {rows[i].id : i \in {j \in 1..Len(rows) :
                  IsSome(rows[j].parent_id) /\ Unwrap(rows[j].parent_id) \in gone}}

\* the ids that go when the rows `gone` are deleted: ON DELETE CASCADE on
\* parent_id takes the children of a deleted row, and theirs
RECURSIVE Cascade(_, _)
Cascade(rows, gone) ==
    LET more == {rows[i].id : i \in {j \in 1..Len(rows) :
                     IsSome(rows[j].parent_id) /\ Unwrap(rows[j].parent_id) \in gone}}
    IN  IF more \subseteq gone THEN gone ELSE Cascade(rows, gone \cup more)

\* one row deleted from tasks, with the foreign key actions of the schema:
\* its descendants go, and the task_tags rows of every task that goes
DeleteRow(db, id) ==
    LET gone == Cascade(db.tasks, {id})
    IN  [db EXCEPT !.tasks = SelectSeq(db.tasks, LAMBDA r : r.id \notin gone),
                   !.task_tags = SelectSeq(db.task_tags, LAMBDA tt : tt[1] \notin gone)]

\* DELETE FROM tasks WHERE id LIKE 'id%': the matching rows are deleted in
\* rowid order; the result counts the rows the statement deleted itself, not
\* those a foreign key action had already taken
RECURSIVE DeleteScan(_, _, _)
DeleteScan(db, ids, n) ==
    IF ids = <<>> THEN [db |-> db, n |-> n]
    ELSE IF Head(ids) \in Ids(db.tasks)
         THEN DeleteScan(DeleteRow(db, Head(ids)), Tail(ids), n + 1)
         ELSE DeleteScan(db, Tail(ids), n)

DeleteLike(db, id) ==
    LET found == Matching(db.tasks, id)
    IN  DeleteScan(db, [i \in 1..Len(found) |-> found[i].id], 0)

RECURSIVE DeleteEach(_, _, _)
DeleteEach(db, ids, n) ==
    IF ids = <<>> THEN Ok(db, n)
    ELSE LET done == DeleteLike(db, Head(ids))
         IN  DeleteEach(done.db, Tail(ids), n + done.n)

\* Database::remove_ids: the ids that get_task finds, then one DELETE for each
remove_ids(db, ids, now) ==
    DeleteEach(db, SelectSeq(ids, LAMBDA id : get_task(db, id, now).ok), 0)

\* remove_tags that stops after the first tag of the list
RemoveFirstTag(db, tag_list, n) ==
    IF tag_list = <<>> THEN Ok(db, n)
    ELSE LET found == TagScan(db, <<Head(tag_list)>>)
         IN  DeleteEach(db, [i \in 1..Len(found) |-> found[i].id], n)

\* Database::remove_tags: for each tag the ids of its tasks, in the order of
\* the scan of task_tags, then one DELETE for each
RECURSIVE remove_tags(_, _, _)
remove_tags(db, tag_list, n) ==
    IF tag_list = <<>> THEN Ok(db, n)
    ELSE LET found == TagScan(db, <<Head(tag_list)>>)
             done == DeleteEach(db, [i \in 1..Len(found) |-> found[i].id], 0)
         IN  remove_tags(done.db, Tail(tag_list), n + done.ret)

\* Database::tags: SELECT tags.name FROM tags, a scan of the table
Database_tags(db) == Ok(db, db.tags)

\* Database::clear
\* a clear that deletes the tasks and their associations and keeps the tag names
ClearTasks(db) == Ok([tasks |-> <<>>, tags |-> db.tags, task_tags |-> <<>>], None)

clear(db) == Ok([tasks |-> <<>>, tags |-> <<>>, task_tags |-> <<>>], None)

-----------------------------------------------------------------------------
(* The commands (main.rs).  Each is one run of the program: it opens the   *)
(* store, performs one operation and exits.  last records the command, its *)
(* arguments and what the operation returned.                              *)

Init ==
    /\ tasks = <<>>
    /\ tags = <<>>
    /\ task_tags = <<>>
    /\ clock = 0
    /\ today = FirstDay
    /\ last = [op |-> "load", arg |-> None, ok |-> TRUE, ret |-> None, gone |-> {},
               gone_tags |-> {}]

\* the store and last after an operation that returned r; last.gone is the
\* set of the rows of the tasks that the run removed from the store, and
\* last.gone_tags the set of the tag names it removed
Returns(op, arg, r) ==
    /\ tasks' = r.db.tasks
    /\ tags' = r.db.tags
    /\ task_tags' = r.db.task_tags
    /\ last' = [op |-> op, arg |-> arg, ok |-> r.ok, ret |-> r.ret,
                gone |-> {row \in SeqToSet(tasks) : row.id \notin Ids(r.db.tasks)},
                gone_tags |-> SeqToSet(tags) \ SeqToSet(r.db.tags)]
    /\ UNCHANGED <<clock, today>>

\* pid_validator: a parent id has the length of the short form of an id
\* (None is Err)
pid_validator(s) == IF Len(s) = ShortLen THEN Some(s) ELSE None

\* Task::new(..)?, then Database::add
AddNew(task) == IF IsNone(task) THEN Err(Store) ELSE add(Store, Unwrap(task))

\* Task::new(..)?, then Database::update
UpdateWith(id, task) ==
    IF IsNone(task) THEN Err(Store) ELSE update(Store, id, Unwrap(task), today)

\* Commands::Add: the command line is refused when pid_validator fails;
\* then Task::new, then Database::add
cmd_add(title, description, difficulty, deadline, tag_list, pid) ==
    Returns("add",
            [title |-> title, desc |-> description, difficulty |-> difficulty,
             deadline |-> deadline, tags |-> tag_list, pid |-> pid],
            IF IsSome(pid) /\ IsNone(pid_validator(Unwrap(pid))) THEN Err(Store)
            ELSE AddNew(Task_new(title, description, difficulty, deadline, tag_list, pid,
                                 today, clock)))

\* Commands::Complete
cmd_complete(id) == Returns("complete", id, completed(Store, id))

\* Commands::Update: an absent --task is the empty title
cmd_update(id, title, description, difficulty, deadline, tag_list, pid) ==
    Returns("update",
            [id |-> id, title |-> title, desc |-> description,
             difficulty |-> difficulty, deadline |-> deadline, tags |-> tag_list,
             pid |-> pid],
            UpdateWith(id, Task_new(IF IsSome(title) THEN Unwrap(title) ELSE <<>>,
                                    description, difficulty, deadline, tag_list, pid,
                                    today, clock)))

\* a call of Deadline::parse on the day `today`: the date, or the failure
call_parse(text) ==
    Returns("parse", text,
            IF IsSome(Deadline_parse(text, today))
            THEN Ok(Store, Unwrap(Deadline_parse(text, today)))
            ELSE [db |-> Store, ok |-> FALSE, ret |-> ParseFailure(LowerText(Trim(text)))])

\* Commands::Next
cmd_next == Returns("next", None, next(Store, today))

\* Commands::Show
cmd_show(id) == Returns("show", id, get_task(Store, id, today))

\* Commands::List
cmd_list(tag_list, pid, all, only_completed) ==
    Returns("list",
            [tags |-> tag_list, pid |-> pid, all |-> all, completed |-> only_completed],
            get_tasks(Store, tag_list, pid, all, only_completed, today))

\* Commands::Remove with ids
cmd_remove_ids(ids) == Returns("remove_ids", ids, remove_ids(Store, ids, today))

\* Commands::Remove with --tags
cmd_remove_tags(tag_list) == Returns("remove_tags", tag_list, remove_tags(Store, tag_list, 0))

\* Commands::Clear: the store is cleared with --force, or when the prompt
\* is confirmed
cmd_clear(confirm) ==
    Returns("clear", confirm, IF confirm THEN clear(Store) ELSE Ok(Store, None))

\* a second passes between two runs of the program
Tick ==
    /\ clock < MaxClock
    /\ clock' = clock + 1
    /\ UNCHANGED <<tasks, tags, task_tags, today, last>>

-----------------------------------------------------------------------------
(* The specification of the ordering: tasks with and without deadlines and *)
(* difficulties are added, completed and removed by their full ids, and    *)
(* listed.                                                                  *)

\* the deadlines given: none, today, tomorrow and FarDays days from today
OrderDeadlines ==
    {None,
     Some(Str(<<"t", "o", "d", "a", "y">>)),
     Some(Str(<<"t", "m", "r">>)),
     Some(Digits(FarDays, 1) \o Str(<<"d">>))}

OrderDifficulties == {None, Some(0), Some(5)}

OrderTitles == {Str(<<"A">>), Str(<<"B">>)}

\* the identifiers that can be given in full
OrderIds == {generate_content_hash(t, 0) : t \in OrderTitles}

OrderAdd ==
    Len(tasks) < MaxTasks /\
    \E title \in OrderTitles, difficulty \in OrderDifficulties,
       deadline \in OrderDeadlines :
        cmd_add(title, None, difficulty, deadline, None, None)

OrderComplete == \E id \in OrderIds : cmd_complete(id)

OrderRemove == \E id \in OrderIds : cmd_remove_ids(<<id>>)

OrderList == \E all \in BOOLEAN, only_completed \in BOOLEAN :
    ~(all /\ only_completed) /\ cmd_list(None, None, all, only_completed)

OrderNext == cmd_next

NextOrder == OrderAdd \/ OrderComplete \/ OrderRemove \/ OrderList \/ OrderNext

SpecOrder == Init /\ [][NextOrder]_vars

-----------------------------------------------------------------------------
(* The specification of the lookups: two tasks whose identifiers share     *)
(* their first letter are added, shown, completed, updated and removed by  *)
(* prefixes, among them prefixes with the characters LIKE treats           *)
(* specially.                                                              *)

ResolveTitles == {Str(<<"A">>), Str(<<"B">>)}

ResolvePrefixes ==
    {Str(<<"a">>), Str(<<"a", "a", "b">>), Str(<<"a", "b", "a">>), Str(<<"b">>),
     Str(<<"A">>), Str(<<"_", "b">>), Str(<<"%", "b">>)}

\* the parent ids given to add: none, and the short form of the identifier
\* of the task with title "A"
ResolveParents == {None, Some(Take(generate_content_hash(Str(<<"A">>), 0), ShortLen))}

ResolveAdd ==
    Len(tasks) < MaxTasks /\
    \E title \in ResolveTitles, pid \in ResolveParents :
        cmd_add(title, None, None, None, None, pid)

ResolveShow == \E id \in ResolvePrefixes : cmd_show(id)

ResolveComplete == \E id \in ResolvePrefixes : cmd_complete(id)

ResolveUpdate ==
    \E id \in ResolvePrefixes :
        cmd_update(id, None, Some(Str(<<"y">>)), None, None, None, None)

ResolveRemove == \E id \in ResolvePrefixes : cmd_remove_ids(<<id>>)

NextResolve ==
    ResolveAdd \/ ResolveShow \/ ResolveComplete \/ ResolveUpdate \/ ResolveRemove

SpecResolve == Init /\ [][NextResolve]_vars

-----------------------------------------------------------------------------
(* The specification of removal: tasks with tags and parents, given by     *)
(* the short forms of their ids, are added and removed by lists of ids and *)
(* by tag.                                                                 *)

CascadeTitles == {Str(<<"A">>), Str(<<"B">>), Str(<<"C">>)}

CascadeIds == {generate_content_hash(t, 0) : t \in CascadeTitles}

\* an id that no task has
UnknownId == [i \in 1..IdLen |-> Ascii["c"]]

\* the lists of ids given to remove: one id, two ids (twice the same id too),
\* and lists with an id that no task has
CascadeLists ==
    {<<id>> : id \in CascadeIds \cup {UnknownId}}
        \cup {<<a, b>> : a \in CascadeIds, b \in CascadeIds \cup {UnknownId}}

CascadeAdd ==
    Len(tasks) < MaxTasks + 1 /\
    \E title \in CascadeTitles, tag_list \in {None, Some(<<Str(<<"w">>)>>)},
       pid \in {None} \cup {Some(Take(id, ShortLen)) : id \in CascadeIds} :
        cmd_add(title, None, None, None, tag_list, pid)

CascadeRemoveIds == \E ids \in CascadeLists : cmd_remove_ids(ids)

CascadeRemoveTags == cmd_remove_tags(<<Str(<<"w">>)>>)

CascadeClear == \E confirm \in BOOLEAN : cmd_clear(confirm)

NextCascade == CascadeAdd \/ CascadeRemoveIds \/ CascadeRemoveTags \/ CascadeClear

SpecCascade == Init /\ [][NextCascade]_vars

-----------------------------------------------------------------------------
(* The specification of update: a task with every field set is added, at   *)
(* most one in a second, and the first one is updated one field at a time, *)
(* completed and removed while the clock advances.                         *)

FrameTitle == Str(<<"A">>)

\* the identifier of the task added in second 0
FrameId == generate_content_hash(FrameTitle, 0)

FrameAdd ==
    Len(tasks) < MaxTasks /\
    \E pid \in {None, Some(Take(FrameId, ShortLen))} :
        cmd_add(FrameTitle, Some(Str(<<"x">>)), Some(5),
                Some(Str(<<"t", "o", "d", "a", "y">>)), Some(<<Str(<<"w">>)>>), pid)

\* the options of update, at most one of them given
FrameUpdates ==
    LET none == [title |-> None, desc |-> None, difficulty |-> None,
                 deadline |-> None, tags |-> None, pid |-> None]
    IN  {none,
         [none EXCEPT !.title = Some(Str(<<"B">>))],
         [none EXCEPT !.desc = Some(Str(<<"y">>))],
         [none EXCEPT !.difficulty = Some(7)],
         [none EXCEPT !.deadline = Some(Str(<<"t", "m", "r">>))],
         [none EXCEPT !.tags = Some(<<Str(<<"h">>)>>)],
         [none EXCEPT !.pid = Some(FrameId)]}

FrameUpdate ==
    \E u \in FrameUpdates :
        cmd_update(FrameId, u.title, u.desc, u.difficulty, u.deadline, u.tags, u.pid)

FrameComplete == \E id \in {FrameId, Str(<<"b">>)} : cmd_complete(id)

FrameRemove == \E id \in {FrameId, Str(<<"b">>)} : cmd_remove_ids(<<id>>)

FrameShow == cmd_show(FrameId)

NextFrame ==
    FrameAdd \/ FrameUpdate \/ FrameComplete \/ FrameRemove \/ FrameShow \/ Tick

SpecFrame == Init /\ [][NextFrame]_vars

-----------------------------------------------------------------------------
(* The specification of the tags: tasks are added with lists of tag names, *)
(* among them lists that name a tag twice, their tags are replaced by      *)
(* update, and tasks are removed by tag.                                   *)

TagW == Str(<<"w">>)
TagH == Str(<<"h">>)

TagsTitles == {Str(<<"A">>), Str(<<"B">>)}

TagsIds == {generate_content_hash(t, 0) : t \in TagsTitles}

\* the tag lists given to add and update
TagsLists ==
    {None, Some(<<TagW>>), Some(<<TagH>>), Some(<<TagW, TagH>>), Some(<<TagW, TagW>>),
     Some(<<TagH, TagH, TagW>>)}

TagsAdd ==
    Len(tasks) < MaxTasks /\
    \E title \in TagsTitles, tag_list \in TagsLists,
       pid \in {None, Some(Take(generate_content_hash(Str(<<"A">>), 0), ShortLen))} :
        cmd_add(title, None, None, None, tag_list, pid)

TagsUpdate ==
    \E id \in TagsIds, tag_list \in TagsLists :
        cmd_update(id, None, None, None, None, tag_list, None)

TagsRemove ==
    \E tag_list \in {<<TagW>>, <<TagH>>, <<TagW, TagH>>} : cmd_remove_tags(tag_list)

NextTags == TagsAdd \/ TagsUpdate \/ TagsRemove

SpecTags == Init /\ [][NextTags]_vars

-----------------------------------------------------------------------------
(* Listings: tasks with tags are added and completed, the store is listed  *)
(* with tag filters in each completion scope, and cleared.                 *)

ListTitles == {Str(<<"A">>), Str(<<"B">>)}

ListIds == {generate_content_hash(t, 0) : t \in ListTitles}

\* the tag filters of list
ListFilters == {None, Some(<<TagW>>), Some(<<TagH>>), Some(<<TagW, TagH>>)}

\* the completion scopes of list as (all, completed): --all conflicts with
\* --completed
ListScopes == {<<FALSE, FALSE>>, <<TRUE, FALSE>>, <<FALSE, TRUE>>}

ListAdd ==
    Len(tasks) < MaxTasks /\
    \E title \in ListTitles, tag_list \in ListFilters :
        cmd_add(title, None, None, None, tag_list, None)

ListComplete == \E id \in ListIds : cmd_complete(id)

ListList ==
    \E tag_list \in ListFilters, scope \in ListScopes :
        cmd_list(tag_list, None, scope[1], scope[2])

ListClear == \E confirm \in BOOLEAN : cmd_clear(confirm)

NextList == ListAdd \/ ListComplete \/ ListList \/ ListClear

SpecList == Init /\ [][NextList]_vars

-----------------------------------------------------------------------------
(* Fields of add: tasks are added with difficulties in and out of range    *)
(* and with parent ids that match a task, match none, or are written with  *)
(* the wildcard of LIKE; tasks are removed and the clock ticks.            *)

FieldsTitles == {Str(<<"A">>), Str(<<"B">>)}

FieldsIds == {generate_content_hash(t, 0) : t \in FieldsTitles}

\* the difficulties given to add: none, the two bounds, and the first value
\* out of range
FieldsDifficulties == {None, Some(0), Some(10), Some(11)}

\* the parent ids given to add, each of the length of a short id: the short
\* id of the task "A" of second 0, one that no task has, and one of wildcards
FieldsParents ==
    {None,
     Some(Take(generate_content_hash(Str(<<"A">>), 0), ShortLen)),
     Some(Take(UnknownId, ShortLen)),
     Some([i \in 1..ShortLen |-> Ascii["_"]])}

FieldsAdd ==
    Len(tasks) < MaxTasks /\
    \E title \in FieldsTitles, difficulty \in FieldsDifficulties, pid \in FieldsParents :
        cmd_add(title, None, difficulty, None, None, pid)

FieldsRemove == \E id \in FieldsIds : cmd_remove_ids(<<id>>)

NextFields == FieldsAdd \/ FieldsRemove \/ Tick

SpecFields == Init /\ [][NextFields]_vars

-----------------------------------------------------------------------------
(* Titles: tasks are added with an empty and with a non-empty title, and   *)
(* updated with no title, an empty title and a new title.                  *)

TitleTitles == {Str(<<>>), Str(<<"A">>), Str(<<"B">>)}

TitleIds == {generate_content_hash(t, 0) : t \in TitleTitles}

TitleAdd ==
    Len(tasks) < MaxTasks /\
    \E title \in TitleTitles : cmd_add(title, None, None, None, None, None)

\* --task absent, --task "" and --task C, with or without a description
TitleUpdate ==
    \E id \in TitleIds, title \in {None, Some(Str(<<>>)), Some(Str(<<"C">>))},
       description \in {None, Some(Str(<<"y">>))} :
        cmd_update(id, title, description, None, None, None, None)

TitleRemove == \E id \in TitleIds : cmd_remove_ids(<<id>>)

NextTitle == TitleAdd \/ TitleUpdate \/ TitleRemove

SpecTitle == Init /\ [][NextTitle]_vars

-----------------------------------------------------------------------------
(* Round trip: one task is added with a difficulty, a deadline and tags,   *)
(* read back on that day and on later days, updated and removed.  The      *)
(* deadlines are written in each form, valid and invalid.                  *)

\* days the calendar may advance during a run
MaxDays == 1

NewDay ==
    /\ today < FirstDay + MaxDays
    /\ today' = today + 1
    /\ UNCHANGED <<tasks, tags, task_tags, clock, last>>

RoundTitle == Str(<<"A">>)

RoundId == generate_content_hash(RoundTitle, 0)

RoundDifficulties == {None, Some(10)}

\* deadlines that parse: a keyword, a date far ahead and one far back (both
\* out of the four-digit years), and an exact date
RoundValid ==
    {Str(<<"e", "o", "w">>),
     Digits(FarDays, 1) \o Str(<<"d">>),
     Str(<<"-">>) \o Digits(FarDays, 1) \o Str(<<"d">>),
     Str(<<"2", "0", "2", "6", "-", "0", "2", "-", "1", "0">>)}

\* deadlines in no recognised form, and the day-month-year date of test_task
RoundInvalid ==
    {Str(<<"i", "n", "c", "o", "r", "r", "e", "c", "t">>),
     Str(<<"5", "x">>),
     Str(<<"2", "3", "-", "0", "1", "-", "2", "0", "2", "6">>)}

RoundTags == {None, Some(<<TagW, TagH>>)}

RoundAdd ==
    Len(tasks) < MaxTasks /\
    \E difficulty \in RoundDifficulties,
       deadline \in {None} \cup {Some(d) : d \in RoundValid \cup RoundInvalid},
       tag_list \in RoundTags :
        cmd_add(RoundTitle, None, difficulty, deadline, tag_list, None)

RoundUpdate ==
    \E deadline \in {Some(d) : d \in {Str(<<"e", "o", "w">>)} \cup RoundInvalid} :
        cmd_update(RoundId, None, None, None, deadline, None, None)

RoundShow == cmd_show(RoundId)

RoundParse == \E text \in {Str(<<"e", "o", "w">>)} \cup RoundInvalid : call_parse(text)

RoundRemove == cmd_remove_ids(<<RoundId>>)

NextRound ==
    RoundAdd \/ RoundUpdate \/ RoundShow \/ RoundParse \/ RoundRemove \/ NewDay

SpecRound == Init /\ [][NextRound]_vars

-----------------------------------------------------------------------------
(* Calendar keywords: Deadline::parse is called with the weekday names and *)
(* the period-end keywords on days of every weekday, month and kind of     *)
(* year.                                                                   *)

\* the program starts on one of the days given, with an empty store
InitOn(days) ==
    /\ tasks = <<>>
    /\ tags = <<>>
    /\ task_tags = <<>>
    /\ clock = 0
    /\ today \in days
    /\ last = [op |-> "load", arg |-> None, ok |-> TRUE, ret |-> None, gone |-> {},
               gone_tags |-> {}]

\* a leap year by the rule of 400, two common years, a leap year and a
\* common year by the rule of 100
CalendarYears == {2000, 2026, 2027, 2028, 2100}

\* the week that starts on FirstDay, and the first, the 28th and the last
\* day of every month of the years above
CalendarDays ==
    {FirstDay + i : i \in 0..6}
        \cup {DaysFromCivil(y, m, 1) : y \in CalendarYears, m \in 1..12}
        \cup {DaysFromCivil(y, m, 28) : y \in CalendarYears, m \in 1..12}
        \cup {DaysFromCivil(y, m, MonthLength(y, m)) : y \in CalendarYears, m \in 1..12}

\* the names of the weekdays, from Monday, in full and in three letters
WeekdayNames ==
    <<{Str(<<"m", "o", "n", "d", "a", "y">>), Str(<<"m", "o", "n">>)},
      {Str(<<"t", "u", "e", "s", "d", "a", "y">>), Str(<<"t", "u", "e">>)},
      {Str(<<"w", "e", "d", "n", "e", "s", "d", "a", "y">>), Str(<<"w", "e", "d">>)},
      {Str(<<"t", "h", "u", "r", "s", "d", "a", "y">>), Str(<<"t", "h", "u">>)},
      {Str(<<"f", "r", "i", "d", "a", "y">>), Str(<<"f", "r", "i">>)},
      {Str(<<"s", "a", "t", "u", "r", "d", "a", "y">>), Str(<<"s", "a", "t">>)},
      {Str(<<"s", "u", "n", "d", "a", "y">>), Str(<<"s", "u", "n">>)}>>

EndOfWeekNames == {Str(<<"e", "o", "w">>), Str(<<"e", "n", "d", "o", "f", "w", "e", "e", "k">>)}
EndOfMonthNames == {Str(<<"e", "o", "m">>), Str(<<"e", "n", "d", "o", "f", "m", "o", "n", "t", "h">>)}
EndOfYearNames == {Str(<<"e", "o", "y">>), Str(<<"e", "n", "d", "o", "f", "y", "e", "a", "r">>)}

CalendarWeekday == \E k \in 1..7 : \E text \in WeekdayNames[k] : call_parse(text)

CalendarPeriod ==
    \E text \in EndOfWeekNames \cup EndOfMonthNames \cup EndOfYearNames : call_parse(text)

NextCalendar == CalendarWeekday \/ CalendarPeriod

SpecCalendar == InitOn(CalendarDays) /\ [][NextCalendar]_vars

-----------------------------------------------------------------------------
(* Parents: tasks are added with and without a parent, given another       *)
(* parent by update, completed, removed, and the store is cleared.         *)

ParentTitles == {Str(<<"A">>), Str(<<"B">>)}

ParentIds == {generate_content_hash(t, 0) : t \in ParentTitles}

ParentAdd ==
    Len(tasks) < MaxTasks /\
    \E title \in ParentTitles, pid \in {None} \cup {Some(Take(id, ShortLen)) : id \in ParentIds} :
        cmd_add(title, None, None, None, None, pid)

\* --pid of update: the full id of a task of the model, an id that no task
\* has, and the short form of an id
ParentUpdate ==
    \E id \in ParentIds,
       pid \in {Some(p) : p \in ParentIds \cup {UnknownId}}
                \cup {Some(Take(p, ShortLen)) : p \in ParentIds} :
        cmd_update(id, None, None, None, None, None, pid)

ParentComplete == \E id \in ParentIds : cmd_complete(id)

ParentRemove == \E id \in ParentIds : cmd_remove_ids(<<id>>)

ParentClear == cmd_clear(TRUE)

NextParent == ParentAdd \/ ParentUpdate \/ ParentComplete \/ ParentRemove \/ ParentClear

SpecParent == Init /\ [][NextParent]_vars

-----------------------------------------------------------------------------
(* Relative durations: Deadline::parse is called with every combination of *)
(* the prefix "in ", the sign "+", a number and a unit, and with the fixed  *)
(* shorthands.                                                             *)

\* a number of units that is in the range of dates as days, and out of it
\* as weeks or months
ManyUnits == 20000000

RelativePrefixes == {Str(<<>>), Str(<<"i", "n", " ">>)}
RelativeSigns == {Str(<<>>), Str(<<"+">>)}
RelativeNumbers == {0, 1, 2, 3, 5, -5, ManyUnits}

\* the units with the days each stands for
RelativeUnits ==
    {<<Str(<<"d">>), 1>>, <<Str(<<"d", "a", "y", "s">>), 1>>,
     <<Str(<<"w">>), 7>>, <<Str(<<"w", "e", "e", "k", "s">>), 7>>,
     <<Str(<<"m">>), 30>>, <<Str(<<"m", "o", "n", "t", "h", "s">>), 30>>}

\* the text of an integer
NumberText(n) == IF n < 0 THEN <<ChMinus>> \o Digits(0 - n, 1) ELSE Digits(n, 1)

RelativeText(prefix, sign, n, unit) == prefix \o sign \o NumberText(n) \o unit

\* the fixed shorthands with the days each stands for
Shorthands ==
    {<<Str(<<"w", "e", "e", "k">>), 7>>, <<Str(<<"1", "w", "e", "e", "k">>), 7>>,
     <<Str(<<"1", "w">>), 7>>,
     <<Str(<<"2", "w", "e", "e", "k", "s">>), 14>>, <<Str(<<"2", "w">>), 14>>,
     <<Str(<<"m", "o", "n", "t", "h">>), 30>>, <<Str(<<"1", "m", "o", "n", "t", "h">>), 30>>,
     <<Str(<<"1", "m">>), 30>>,
     <<Str(<<"3", "m", "o", "n", "t", "h", "s">>), 90>>, <<Str(<<"3", "m">>), 90>>}

RelativeParse ==
    \E prefix \in RelativePrefixes, sign \in RelativeSigns, n \in RelativeNumbers,
       unit \in RelativeUnits :
        call_parse(RelativeText(prefix, sign, n, unit[1]))

RelativeShorthand == \E short \in Shorthands : call_parse(short[1])

NextRelative == RelativeParse \/ RelativeShorthand

SpecRelative == InitOn({FirstDay + i : i \in 0..2}) /\ [][NextRelative]_vars

-----------------------------------------------------------------------------
(* Properties of the ordering, checked under SpecOrder.                    *)

\* the tasks of the rows stored, as a listing of every task reads them
StoredTasks == get_tasks(Store, None, None, TRUE, FALSE, today).ret

Incomplete == {i \in 1..Len(tasks) : ~tasks[i].completed}

\* the ordering of the specification, on dates: task a has to come strictly
\* before task b
DueBefore(a, b) ==
    LET rank_a == IF IsNone(a.difficulty) THEN -1 ELSE Unwrap(a.difficulty)
        rank_b == IF IsNone(b.difficulty) THEN -1 ELSE Unwrap(b.difficulty)
    IN  IF IsSome(a.deadline) # IsSome(b.deadline) THEN IsSome(a.deadline)
        ELSE IF a.deadline # b.deadline THEN Unwrap(a.deadline) < Unwrap(b.deadline)
        ELSE rank_a > rank_b

\* C2: when an incomplete task is stored, next succeeds and returns exactly
\* the task at position 1 of the default listing (no tags, no parent, only
\* incomplete tasks), also when tasks share deadline and difficulty.
C2_NextIsHeadOfList ==
    (last.op = "next" /\ Incomplete # {}) =>
        LET listing == get_tasks(Store, None, None, FALSE, FALSE, today)
        IN  /\ last.ok
            /\ listing.ok
            /\ listing.ret # <<>>
            /\ last.ret = listing.ret[1]

\* C2 witness: next has answered on a store of two incomplete tasks with the
\* same deadline and the same difficulty.
C2_Witness ==
    /\ last.op = "next"
    /\ last.ok
    /\ Len(tasks) = 2
    /\ Incomplete = {1, 2}
    /\ tasks[1].deadline = tasks[2].deadline
    /\ IsSome(tasks[1].deadline)
    /\ tasks[1].difficulty = tasks[2].difficulty

\* C3: next fails exactly when no incomplete task is stored, never returns a
\* completed task, and returns a most urgent incomplete task: no incomplete
\* task has to come before the one returned.
C3_NextMostUrgent ==
    last.op = "next" =>
        /\ last.ok <=> Incomplete # {}
        /\ last.ok =>
            /\ ~last.ret.completed
            /\ \A i \in 1..Len(StoredTasks) :
                 ~StoredTasks[i].completed => ~DueBefore(StoredTasks[i], last.ret)

\* C3 without its last part: next fails exactly when no incomplete task is
\* stored and never returns a completed task.
C3_NextFailsIffNoneIncomplete ==
    last.op = "next" =>
        /\ last.ok <=> Incomplete # {}
        /\ last.ok => ~last.ret.completed /\ last.ret.id \in Ids(tasks)

\* next has failed on a store whose tasks are all completed
C3_WitnessAllCompleted ==
    last.op = "next" /\ ~last.ok /\ Len(tasks) > 0

\* C4: every listing is in the order of the specification: no task of the
\* list has to come before a task that precedes it.
C4_ListInDateOrder ==
    (last.op = "list" /\ last.ok) =>
        \A i, j \in 1..Len(last.ret) : i < j => ~DueBefore(last.ret[j], last.ret[i])

-----------------------------------------------------------------------------
(* Properties of the lookups by prefix, checked under SpecResolve.         *)

\* the rows whose identifier starts with the text given, in the order of
\* the table
PrefixMatches(rows, id) == SelectSeq(rows, LAMBDA r : StartsWith(r.id, id))

\* the prefix that the last command, were it run now, resolves
TargetOf(cmd) ==
    IF cmd.op = "update" THEN cmd.arg.id
    ELSE IF cmd.op = "remove_ids" THEN cmd.arg[1]
    ELSE cmd.arg

\* C6: a lookup by prefix matches a task only if the identifier of the task
\* starts with the text given, character for character: show returns such a
\* task, complete and update succeed only when there is one; and a
\* full-length identifier resolves to the task that has it.
C6_ResolvesByPrefixOnly ==
    /\ (last.op = "show" /\ last.ok) => StartsWith(last.ret.id, last.arg)
    /\ (last.op \in {"complete", "update"} /\ last.ok) =>
           PrefixMatches(tasks, TargetOf(last)) # <<>>
    /\ (last.op = "show" /\ last.arg \in Ids(tasks)) =>
           last.ok /\ last.ret.id = last.arg

\* C7: when the prefix given to complete, update or remove matches several
\* tasks, every match but the first is left as it was (a remove may take a
\* later match only as a descendant of the first).
C7_FirstMatchOnly ==
    [][last'.op \in {"complete", "update", "remove_ids"} /\ clock' = clock =>
          LET found == PrefixMatches(tasks, TargetOf(last'))
          IN  \A k \in 2..Len(found) :
                  \/ found[k] \in SeqToSet(tasks')
                  \/ /\ last'.op = "remove_ids"
                     /\ found[k].id \in Cascade(tasks, {found[1].id})]_vars

\* C8: show with a prefix that several stored identifiers start with does
\* not return a task: it reports the ambiguity, with the candidates.
C8_AmbiguousShowReported ==
    (last.op = "show" /\ Len(PrefixMatches(tasks, last.arg)) > 1) =>
        /\ ~last.ok
        /\ last.ret = Some(Ids(SeqToSet(PrefixMatches(tasks, last.arg))))

-----------------------------------------------------------------------------
(* Properties of removal, checked under SpecCascade.                       *)

\* C9: remove by ids never fails, and the count it returns is the number of
\* tasks that the call removed from the store.
C9_RemoveCountsRemoved ==
    last.op = "remove_ids" => last.ok /\ last.ret = Cardinality(last.gone)

\* C10: a step that removes a task removes every task that has it as parent
\* (so, step by step down, every descendant), and after every step each
\* task-tag association is of a stored task.
C10_RemovalCascades ==
    [][/\ \A i, j \in 1..Len(tasks) :
            (tasks[i].id \notin Ids(tasks') /\ tasks[j].parent_id = Some(tasks[i].id))
                => tasks[j].id \notin Ids(tasks')
       /\ \A k \in 1..Len(task_tags') : task_tags'[k][1] \in Ids(tasks')]_vars

\* C10 witness: remove with the one id of a task has removed it, a child of
\* it and a child of that child, and no task-tag association is left of the
\* tags that were given.
C10_Witness ==
    /\ last.op = "remove_ids"
    /\ Len(last.arg) = 1
    /\ \E a, b, c \in last.gone :
           /\ a.id = last.arg[1]
           /\ b.parent_id = Some(a.id)
           /\ c.parent_id = Some(b.id)
           /\ c.id # a.id
    /\ tags # <<>>
    /\ task_tags = <<>>

-----------------------------------------------------------------------------
(* Properties of update, checked under SpecFrame.                          *)

\* C1: a successful update leaves every field that was not supplied as it
\* was: title, description, difficulty, deadline, parent id, tag set and the
\* completion flag of the task updated.
C1_UpdateChangesOnlySupplied ==
    [][(last'.op = "update" /\ clock' = clock /\ last'.ok) =>
          LET given == last'.arg
              old == Head(Matching(tasks, given.id))
              new == RowOf(tasks', old.id)
          IN  /\ IsNone(given.title) => new.title = old.title
              /\ IsNone(given.desc) => new.description = old.description
              /\ IsNone(given.difficulty) => new.difficulty = old.difficulty
              /\ IsNone(given.deadline) => new.deadline = old.deadline
              /\ IsNone(given.pid) => new.parent_id = old.parent_id
              /\ IsNone(given.tags) =>
                     get_tags([tasks |-> tasks', tags |-> tags', task_tags |-> task_tags'],
                              old.id) = get_tags(Store, old.id)
              /\ new.completed = old.completed]_vars

\* C5: every step keeps the identifier and the creation time of each task
\* that stays stored; a row with another identifier or creation time is the
\* row that add has just written, with the time of the add and the
\* identifier made from the title and that time.
C5_IdAndCreatedFixed ==
    [][\A j \in 1..Len(tasks') :
          \/ \E i \in 1..Len(tasks) :
                 /\ tasks[i].id = tasks'[j].id
                 /\ tasks[i].created_at = tasks'[j].created_at
          \/ /\ last'.op = "add"
             /\ j = Len(tasks) + 1
             /\ tasks'[j].created_at = clock
             /\ tasks'[j].id = generate_content_hash(last'.arg.title, clock)]_vars

\* C5 witness: an update has succeeded on a task in a later second than the
\* one the task was created in.
C5_Witness ==
    /\ last.op = "update"
    /\ last.ok
    /\ Matching(tasks, last.arg.id) # <<>>
    /\ Head(Matching(tasks, last.arg.id)).created_at < clock
    /\ Head(Matching(tasks, last.arg.id)).title # FrameTitle

-----------------------------------------------------------------------------
(* Properties of the tags, checked under SpecTags.                         *)

\* the store after a step
StoreAfter == [tasks |-> tasks', tags |-> tags', task_tags |-> task_tags']

\* the set of the tag names of a task
TagSet(db, id) == SeqToSet(get_tags(db, id))

\* C11: remove by tags removes every task that has one of the tags named,
\* and every task that has none of them and is not a descendant of a task
\* removed stays stored, with its fields and its tags as they were.
C11_RemoveTagsFrame ==
    [][last'.op = "remove_tags" /\ clock' = clock =>
          LET hit == {id \in Ids(tasks) : TagSet(Store, id) \cap SeqToSet(last'.arg) # {}}
          IN  /\ hit \cap Ids(tasks') = {}
              /\ \A i \in 1..Len(tasks) :
                     tasks[i].id \notin Cascade(tasks, hit) =>
                         /\ tasks[i] \in SeqToSet(tasks')
                         /\ get_tags(StoreAfter, tasks[i].id) = get_tags(Store, tasks[i].id)]_vars

\* C11 witness: remove by the tag w has removed a task, and a task with the
\* tag h alone is still stored.
C11_Witness ==
    /\ last.op = "remove_tags"
    /\ last.arg = <<TagW>>
    /\ last.gone # {}
    /\ \E id \in Ids(tasks) : get_tags(Store, id) = <<TagH>>

-----------------------------------------------------------------------------
(* C12: after a clear that was confirmed, the listing is empty for every   *)
(* tag filter and every completion scope (scope all included), the list of *)
(* tag names is empty, and no association is left.                         *)
C12_ClearPurgesAll ==
    (last.op = "clear" /\ last.arg = TRUE) =>
        /\ \A tag_list \in ListFilters, scope \in ListScopes :
               get_tasks(Store, tag_list, None, scope[1], scope[2], today)
                   = Ok(Store, <<>>)
        /\ Database_tags(Store) = Ok(Store, <<>>)
        /\ task_tags = <<>>

\* a clear that purged a completed task, an incomplete one and tag names
C12_Witness ==
    /\ last.op = "clear" /\ last.arg = TRUE
    /\ \E done \in last.gone, open \in last.gone : done.completed /\ ~open.completed
    /\ last.gone_tags = {TagW, TagH}
    /\ tasks = <<>>

-----------------------------------------------------------------------------
\* what C13 says of one complete command, from the store before it
CompleteAsSpecified(id) ==
    IF PrefixMatches(tasks, id) # <<>>
    THEN /\ last'.ok
         /\ \A r \in SeqToSet(PrefixMatches(tasks', id)) : r.completed
         /\ Ids(tasks') = Ids(tasks)
         /\ completed(StoreAfter, id) = Ok(StoreAfter, id)
    ELSE /\ ~last'.ok
         /\ StoreAfter = Store

\* C13: complete with a prefix of a stored identifier succeeds and leaves the
\* task completed, and run again on the result it succeeds and changes
\* nothing; with a text that no stored identifier starts with it fails and
\* leaves the store as it was.
C13_CompleteSetsOrNotFound ==
    [][last'.op = "complete" /\ clock' = clock => CompleteAsSpecified(last'.arg)]_vars

\* the same for the texts written with the characters of identifiers only
C13_PlainPrefixes ==
    [][(last'.op = "complete" /\ clock' = clock /\ \A i \in 1..Len(last'.arg) :
                                    last'.arg[i] \in {Ascii["a"], Ascii["b"]})
           => CompleteAsSpecified(last'.arg)]_vars

-----------------------------------------------------------------------------
\* C14: after an update of a stored task that gives a tag list, the tags of
\* the task are exactly the names of the list; after an update that gives
\* none, the tags of the task are as before; the tags of every other task
\* are as before in both cases.
C14_UpdateReplacesTags ==
    [][(last'.op = "update" /\ clock' = clock /\ last'.arg.id \in Ids(tasks)) =>
          /\ IsSome(last'.arg.tags) =>
                 TagSet(StoreAfter, last'.arg.id) = SeqToSet(Unwrap(last'.arg.tags))
          /\ IsNone(last'.arg.tags) =>
                 get_tags(StoreAfter, last'.arg.id) = get_tags(Store, last'.arg.id)
          /\ \A id \in Ids(tasks) \ {last'.arg.id} :
                 get_tags(StoreAfter, id) = get_tags(Store, id)]_vars

\* the same for the tag lists that name no tag twice
C14_DistinctNames ==
    [][(last'.op = "update" /\ clock' = clock /\ last'.arg.id \in Ids(tasks)
            /\ IsSome(last'.arg.tags)
            /\ Cardinality(SeqToSet(Unwrap(last'.arg.tags))) = Len(Unwrap(last'.arg.tags))) =>
          /\ last'.ok
          /\ TagSet(StoreAfter, last'.arg.id) = SeqToSet(Unwrap(last'.arg.tags))
          /\ \A id \in Ids(tasks) \ {last'.arg.id} :
                 get_tags(StoreAfter, id) = get_tags(Store, id)]_vars

-----------------------------------------------------------------------------
\* an add of the model whose fields are valid: the parent, when one is given,
\* is the start of a stored identifier, and no stored task has the identifier
\* of the new task
ValidAdd(arg) ==
    /\ IsSome(arg.pid) => PrefixMatches(tasks, Unwrap(arg.pid)) # <<>>
    /\ generate_content_hash(arg.title, clock) \notin Ids(tasks)

\* C17: an add with a tag list succeeds, also when the list names a tag more
\* than once; the new task then has exactly one association for each
\* distinct name of the list, the names known before keep their places and
\* no name is stored twice.
C17_AddDuplicateTags ==
    [][(last'.op = "add" /\ clock' = clock /\ ValidAdd(last'.arg) /\ IsSome(last'.arg.tags)) =>
          LET id == generate_content_hash(last'.arg.title, clock)
              names == SeqToSet(Unwrap(last'.arg.tags))
          IN  /\ last'.ok
              /\ TagSet(StoreAfter, id) = names
              /\ Len(SelectSeq(task_tags', LAMBDA tt : tt[1] = id)) = Cardinality(names)
              /\ SubSeq(tags', 1, Len(tags)) = tags
              /\ Len(tags') = Cardinality(SeqToSet(tags) \cup names)]_vars

\* the same for the tag lists that name no tag twice
C17_DistinctNames ==
    [][(last'.op = "add" /\ clock' = clock /\ ValidAdd(last'.arg) /\ IsSome(last'.arg.tags)
            /\ Cardinality(SeqToSet(Unwrap(last'.arg.tags))) = Len(Unwrap(last'.arg.tags))) =>
          LET id == generate_content_hash(last'.arg.title, clock)
              names == SeqToSet(Unwrap(last'.arg.tags))
          IN  /\ last'.ok
              /\ TagSet(StoreAfter, id) = names
              /\ Len(SelectSeq(task_tags', LAMBDA tt : tt[1] = id)) = Cardinality(names)
              /\ SubSeq(tags', 1, Len(tags)) = tags
              /\ Len(tags') = Cardinality(SeqToSet(tags) \cup names)]_vars

-----------------------------------------------------------------------------
\* the row that the add of the step has written
AddedRow(arg) == RowOf(tasks', generate_content_hash(arg.title, clock))

\* C15: an add with a difficulty out of 0..10 fails and leaves the store as
\* it was; an add with a difficulty in 0..10, valid otherwise, succeeds and
\* stores that difficulty; so every difficulty stored is in 0..10.
C15_DifficultyInRange ==
    [][(last'.op = "add" /\ clock' = clock /\ IsSome(last'.arg.difficulty)) =>
          /\ Unwrap(last'.arg.difficulty) \notin 0..10 =>
                 ~last'.ok /\ StoreAfter = Store
          /\ (Unwrap(last'.arg.difficulty) \in 0..10 /\ ValidAdd(last'.arg)) =>
                 last'.ok /\ AddedRow(last'.arg).difficulty = last'.arg.difficulty
          /\ last'.ok => Unwrap(last'.arg.difficulty) \in 0..10
          /\ \A i \in 1..Len(tasks') :
                 IsSome(tasks'[i].difficulty) => Unwrap(tasks'[i].difficulty) \in 0..10]_vars

\* an add with difficulty 11 and no parent was refused while a task of
\* difficulty 10 is stored
C15_Witness ==
    /\ last.op = "add" /\ ~last.ok /\ last.arg.difficulty = Some(11)
    /\ IsNone(last.arg.pid)
    /\ \E i \in 1..Len(tasks) : tasks[i].difficulty = Some(10)

-----------------------------------------------------------------------------
\* what C16 says of one add with a parent id, from the store before it
ParentAsSpecified(arg) ==
    IF PrefixMatches(tasks, Unwrap(arg.pid)) = <<>>
    THEN ~last'.ok /\ StoreAfter = Store
    ELSE last'.ok =>
             /\ IsSome(AddedRow(arg).parent_id)
             /\ Unwrap(AddedRow(arg).parent_id)
                    \in Ids(PrefixMatches(tasks, Unwrap(arg.pid)))

\* C16: an add with a parent id that no stored identifier starts with fails
\* and leaves tasks, tag names and associations as they were; an add with a
\* parent id that a stored identifier starts with stores the whole
\* identifier of such a task as the parent of the new task.
C16_ParentResolvedOrRefused ==
    [][(last'.op = "add" /\ clock' = clock /\ IsSome(last'.arg.pid)) =>
          ParentAsSpecified(last'.arg)]_vars

\* the same for the parent ids written without the wildcards of LIKE
C16_PlainPrefixes ==
    [][(last'.op = "add" /\ clock' = clock /\ IsSome(last'.arg.pid)
            /\ \A i \in 1..Len(Unwrap(last'.arg.pid)) :
                   Unwrap(last'.arg.pid)[i] # Ascii["_"]) =>
          ParentAsSpecified(last'.arg)]_vars

\* C18: an add with valid fields succeeds, and the identifier it assigns is
\* the identifier of no stored task.
C18_AddAssignsFreshId ==
    [][(last'.op = "add" /\ clock' = clock
            /\ (IsSome(last'.arg.difficulty) => Unwrap(last'.arg.difficulty) \in 0..10)
            /\ (IsSome(last'.arg.pid) => PrefixMatches(tasks, Unwrap(last'.arg.pid)) # <<>>)) =>
          /\ last'.ok
          /\ generate_content_hash(last'.arg.title, clock) \notin Ids(tasks)]_vars

\* the same for the adds whose title no task of the same second has
C18_OtherTitleOrSecond ==
    [][(last'.op = "add" /\ clock' = clock
            /\ (IsSome(last'.arg.difficulty) => Unwrap(last'.arg.difficulty) \in 0..10)
            /\ (IsSome(last'.arg.pid) => PrefixMatches(tasks, Unwrap(last'.arg.pid)) # <<>>)
            /\ \A i \in 1..Len(tasks) :
                   tasks[i].title # last'.arg.title \/ tasks[i].created_at # clock) =>
          /\ last'.ok
          /\ generate_content_hash(last'.arg.title, clock) \notin Ids(tasks)]_vars

-----------------------------------------------------------------------------
\* whether a task with this completion flag is in the scope asked for: only
\* the completed ones, all, or by default only the incomplete ones
InScope(flag, all, only_completed) ==
    IF only_completed THEN flag ELSE IF all THEN TRUE ELSE ~flag

\* the identifiers of a listing without tag and parent filter
Listed(all, only_completed) ==
    {t.id : t \in SeqToSet(get_tasks(Store, None, None, all, only_completed, today).ret)}

\* C19: a listing in the default scope holds only incomplete tasks, one in
\* the scope of the completed holds only completed tasks, and without a tag
\* filter a listing holds exactly the stored tasks of its scope (all of them
\* in scope all); a task that complete has just completed is in the listing
\* of the completed and not in the default one.
C19_CompletionScopes ==
    /\ last.op = "list" =>
           /\ last.ok
           /\ \A t \in SeqToSet(last.ret) :
                  InScope(t.completed, last.arg.all, last.arg.completed)
           /\ IsNone(last.arg.tags) =>
                  {t.id : t \in SeqToSet(last.ret)}
                      = {r.id : r \in {x \in SeqToSet(tasks) :
                                          InScope(x.completed, last.arg.all, last.arg.completed)}}
    /\ (last.op = "complete" /\ last.ok) =>
           \A r \in SeqToSet(PrefixMatches(tasks, last.arg)) :
               /\ r.id \in Listed(FALSE, TRUE)
               /\ r.id \in Listed(TRUE, FALSE)
               /\ r.id \notin Listed(FALSE, FALSE)

\* the listing of the completed tasks of a store with a completed and an
\* incomplete task
C19_Witness ==
    /\ last.op = "list" /\ last.arg.completed /\ IsNone(last.arg.tags)
    /\ Len(last.ret) = 1
    /\ \E i, j \in 1..Len(tasks) : tasks[i].completed /\ ~tasks[j].completed

\* C20: a listing with a tag filter holds exactly the stored tasks of its
\* completion scope that have at least one of the tags named, each of them
\* once.
C20_TagFilterAnyOnce ==
    (last.op = "list" /\ IsSome(last.arg.tags)) =>
        /\ last.ok
        /\ \A i, j \in 1..Len(last.ret) : last.ret[i].id = last.ret[j].id => i = j
        /\ {t.id : t \in SeqToSet(last.ret)}
               = {r.id : r \in {x \in SeqToSet(tasks) :
                                   /\ InScope(x.completed, last.arg.all, last.arg.completed)
                                   /\ TagSet(Store, x.id)
                                          \cap SeqToSet(Unwrap(last.arg.tags)) # {}}}

\* a listing for two tags of a store with a task that has both, listed once,
\* and a task that has only one of them, listed too
C20_Witness ==
    /\ last.op = "list" /\ last.arg.tags = Some(<<TagW, TagH>>)
    /\ Len(last.ret) = Len(tasks)
    /\ \E i, j \in 1..Len(tasks) :
           /\ TagSet(Store, tasks[i].id) = {TagW, TagH}
           /\ TagSet(Store, tasks[j].id) = {TagH}

-----------------------------------------------------------------------------
\* C21: an add with an empty title fails and leaves the store as it was, and
\* after every step every stored task has a title that is not empty.
C21_TitleNeverEmpty ==
    [][/\ (last'.op = "add" /\ clock' = clock /\ last'.arg.title = <<>>) =>
              ~last'.ok /\ StoreAfter = Store
       /\ \A i \in 1..Len(tasks') : tasks'[i].title # <<>>]_vars

\* the part of C21 on update: an update leaves no task with an empty title
\* that had a title before
C21_UpdateKeepsTitle ==
    [][last'.op = "update" /\ clock' = clock =>
          \A i \in 1..Len(tasks') :
              tasks'[i].title = <<>> =>
                  RowOf(tasks, tasks'[i].id).title = <<>>]_vars

-----------------------------------------------------------------------------
\* the days on which a stored task may be read back
ReadDays == FirstDay..(FirstDay + MaxDays)

\* C22: a task added with a valid difficulty, deadline and tag list (no name
\* twice) is read back, on the day it was added and on every later day, with
\* that difficulty, with the date its deadline stood for on the day it was
\* added, and with the names of its tag list in ascending order.
C22_RoundTrip ==
    [][(last'.op = "add" /\ clock' = clock /\ last'.ok /\ today' = today) =>
          \A now \in ReadDays :
              LET read == get_task(StoreAfter, RoundId, now)
              IN  /\ read.ok
                  /\ read.ret.difficulty = last'.arg.difficulty
                  /\ read.ret.deadline =
                         (IF IsSome(last'.arg.deadline)
                          THEN Deadline_parse(Unwrap(last'.arg.deadline), today)
                          ELSE None)
                  /\ IsNone(last'.arg.tags) => IsNone(read.ret.tags)
                  /\ IsSome(last'.arg.tags) =>
                         /\ IsSome(read.ret.tags)
                         /\ Unwrap(read.ret.tags)
                                = SortTexts(SeqToSet(Unwrap(last'.arg.tags)))]_vars

\* a task added with difficulty 10, a deadline out of the four-digit years
\* and the tags w, h was shown on a later day with the tags as h, w
C22_Witness ==
    /\ last.op = "show" /\ last.ok
    /\ today > FirstDay
    /\ last.ret.difficulty = Some(10)
    /\ last.ret.deadline = Some(FirstDay + FarDays)
    /\ last.ret.tags = Some(<<TagH, TagW>>)
    /\ task_tags = <<<<RoundId, 1>>, <<RoundId, 2>>>>
    /\ tags = <<TagW, TagH>>

-----------------------------------------------------------------------------
\* the date 23 January 2026 written day-month-year with '-'
DayMonthYear == Str(<<"2", "3", "-", "0", "1", "-", "2", "0", "2", "6">>)

\* C26: an add whose deadline is a date written day-month-year with '-'
\* (23-01-2026), whose difficulty is absent or in range and whose other
\* fields are valid succeeds: Task::new accepts the deadline.
C26_DayMonthYearAccepted ==
    [][(last'.op = "add" /\ today' = today /\ clock' = clock
            /\ last'.arg.deadline = Some(DayMonthYear)
            /\ ValidAdd(last'.arg)) =>
          /\ IsSome(Task_new(last'.arg.title, last'.arg.desc, last'.arg.difficulty,
                             last'.arg.deadline, last'.arg.tags, last'.arg.pid,
                             today, clock))
          /\ last'.ok]_vars

\* C27: Deadline::parse of a text in no recognised form fails with an error
\* that carries the text; and an add or update whose deadline is such a
\* text fails and leaves the store as it was.
C27_InvalidDeadlineRefused ==
    [][/\ (last'.op = "parse" /\ today' = today /\ clock' = clock
              /\ last'.arg \in RoundInvalid \ {DayMonthYear}) =>
             /\ ~last'.ok
             /\ last'.ret.carries = Some(last'.arg)
       /\ (last'.op \in {"add", "update"} /\ today' = today /\ clock' = clock
              /\ IsSome(last'.arg.deadline)
              /\ Unwrap(last'.arg.deadline) \in RoundInvalid \ {DayMonthYear}) =>
             /\ ~last'.ok
             /\ StoreAfter = Store]_vars

\* the part of C27 on the store: the command fails and nothing is written
C27_NothingPersisted ==
    [][(last'.op \in {"add", "update"} /\ today' = today /\ clock' = clock
            /\ IsSome(last'.arg.deadline)
            /\ Unwrap(last'.arg.deadline) \in RoundInvalid) =>
          /\ IsNone(Deadline_parse(Unwrap(last'.arg.deadline), today))
          /\ ~last'.ok
          /\ StoreAfter = Store]_vars

-----------------------------------------------------------------------------
\* C23: the parse of a weekday name, in full or in three letters, succeeds
\* with a date from tomorrow to a week from today that falls on that
\* weekday; it is a week from today when today is that weekday.
C23_WeekdayAfterToday ==
    \A k \in 1..7 :
        (last.op = "parse" /\ last.arg \in WeekdayNames[k]) =>
            /\ last.ok
            /\ last.ret >= today + 1 /\ last.ret <= today + 7
            /\ Weekday(last.ret) = k - 1
            /\ CivilFromDays(last.ret) # CivilFromDays(today)
            /\ Weekday(today) = k - 1 => last.ret = today + 7

\* the parse of "monday" on a Monday: the Monday a week later
C23_Witness ==
    /\ last.op = "parse" /\ last.arg = Str(<<"m", "o", "n", "d", "a", "y">>)
    /\ Weekday(today) = 0
    /\ last.ret = today + 7

\* C24: the parse of a period-end keyword succeeds with a date not before
\* today: for the end of the week the Sunday among today and the six days
\* after it; for the end of the month the day of today's month whose next
\* day is the first of a month (the 28th or 29th in February by leap year,
\* the 31st in December); for the end of the year 31 December of today's
\* year.
C24_PeriodEnds ==
    LET now == CivilFromDays(today)
        end == CivilFromDays(last.ret)
    IN  /\ (last.op = "parse" /\ last.arg \in EndOfWeekNames) =>
               /\ last.ok
               /\ last.ret >= today /\ last.ret <= today + 6
               /\ Weekday(last.ret) = 6
        /\ (last.op = "parse" /\ last.arg \in EndOfMonthNames) =>
               /\ last.ok
               /\ last.ret >= today
               /\ end.y = now.y /\ end.m = now.m
               /\ CivilFromDays(last.ret + 1).d = 1
               /\ now.m = 2 => end.d = (IF now.y % 4 = 0 /\ (now.y % 100 # 0 \/ now.y % 400 = 0)
                                         THEN 29 ELSE 28)
               /\ now.m = 12 => end.d = 31
        /\ (last.op = "parse" /\ last.arg \in EndOfYearNames) =>
               /\ last.ok
               /\ last.ret >= today
               /\ end = [y |-> now.y, m |-> 12, d |-> 31]

\* the parse of "eom" on 1 February 2028: the 29th
C24_Witness ==
    /\ last.op = "parse" /\ last.arg = Str(<<"e", "o", "m">>)
    /\ CivilFromDays(today) = [y |-> 2028, m |-> 2, d |-> 1]
    /\ CivilFromDays(last.ret) = [y |-> 2028, m |-> 2, d |-> 29]

-----------------------------------------------------------------------------
\* C25: the parse of a number n with a unit, after "in " or "+" or both or
\* neither, succeeds with the date today + n days, today + 7 n days or
\* today + 30 n days by the unit; and the parse of a fixed shorthand
\* succeeds with today + the days of the shorthand, which is the same date
\* where a shorthand is also a number with a unit.
C25_RelativeDays ==
    /\ \A prefix \in RelativePrefixes, sign \in RelativeSigns, n \in RelativeNumbers,
          unit \in RelativeUnits :
           (last.op = "parse" /\ last.arg = RelativeText(prefix, sign, n, unit[1])) =>
               last.ok /\ last.ret = today + n * unit[2]
    /\ \A short \in Shorthands :
           (last.op = "parse" /\ last.arg = short[1]) =>
               last.ok /\ last.ret = today + short[2]

\* the same for the numbers that keep today + n units in the dates that
\* NaiveDate can hold
C25_WithinRange ==
    /\ \A prefix \in RelativePrefixes, sign \in RelativeSigns, n \in RelativeNumbers,
          unit \in RelativeUnits :
           (last.op = "parse" /\ last.arg = RelativeText(prefix, sign, n, unit[1])
                /\ today + n * unit[2] <= NaiveDate_MAX) =>
               last.ok /\ last.ret = today + n * unit[2]
    /\ \A short \in Shorthands :
           (last.op = "parse" /\ last.arg = short[1]) =>
               last.ok /\ last.ret = today + short[2]

-----------------------------------------------------------------------------
\* C28: an add or an update that returns an error leaves the stored tasks,
\* tag names and associations as they were before it.
C28_FailureLeavesStore ==
    [][(last'.op \in {"add", "update"} /\ today' = today /\ clock' = clock
            /\ ~last'.ok) =>
          StoreAfter = Store]_vars

\* the same for the adds and updates whose tag list names no tag twice
C28_DistinctNames ==
    [][(last'.op \in {"add", "update"} /\ today' = today /\ clock' = clock
            /\ ~last'.ok
            /\ (IsSome(last'.arg.tags) =>
                   Cardinality(SeqToSet(Unwrap(last'.arg.tags)))
                       = Len(Unwrap(last'.arg.tags)))) =>
          StoreAfter = Store]_vars

-----------------------------------------------------------------------------
\* C29: after every step the parent id of every stored task that has one is
\* the whole identifier of a stored task; and an update that gives as
\* parent a text that is the identifier of no stored task fails and stores
\* that text nowhere.
C29_ParentsAreStored ==
    [][/\ \A i \in 1..Len(tasks') :
              IsSome(tasks'[i].parent_id) => Unwrap(tasks'[i].parent_id) \in Ids(tasks')
       /\ (last'.op = "update" /\ clock' = clock /\ IsSome(last'.arg.pid)
              /\ Unwrap(last'.arg.pid) \notin Ids(tasks)) =>
             /\ ~last'.ok
             /\ \A i \in 1..Len(tasks') : tasks'[i].parent_id # last'.arg.pid]_vars

\* an update to a parent that no task has was refused on a store of a
\* parent and its child
C29_Witness ==
    /\ last.op = "update" /\ ~last.ok /\ last.arg.pid = Some(UnknownId)
    /\ last.arg.id \in Ids(tasks)
    /\ \E i \in 1..Len(tasks) : IsSome(tasks[i].parent_id)

\* the tasks below a task: its children, and theirs
Descendants(rows, id) ==
    Cascade(rows, {rows[i].id : i \in {j \in 1..Len(rows) : rows[j].parent_id = Some(id)}})

\* C30: no stored task is its own parent or its own ancestor.
C30_NoParentCycle ==
    \A id \in Ids(tasks) : id \notin Descendants(tasks, id)

\* the part of C30 on add: an add gives no task a place below itself
C30_AddMakesNoCycle ==
    [][(last'.op = "add" /\ clock' = clock /\ \A id \in Ids(tasks) : id \notin Descendants(tasks, id)) =>
          \A id \in Ids(tasks') : id \notin Descendants(tasks', id)]_vars

=============================================================================
